---- MODULE Spec2Model ----
(***************************************************************************)
(* A model of the dynamic workflow orchestrator: the constraint records    *)
(* and policy checks (constraints.py, workflow.py), the static builder     *)
(* Workflow.add_task, and the Orchestrator (register_workflow,             *)
(* run_workflow / run_helper / spawn_parallel / task_runner,               *)
(* complete_task, spawn_task with its fail_workflow abort).                *)
(*                                                                         *)
(* One workflow is modelled.  run_workflow is a single synchronous call in *)
(* the source; it is cut here at the points where an opaque task body may  *)
(* act: the body is a nondeterministic sequence of handle calls            *)
(* (spawn_task, complete_task), ended by a return, a raise, or an          *)
(* uncaught error of one of those calls.  The graphviz rendering and the   *)
(* visualization counters are left out; the lookups visualize makes in     *)
(* execution_history are kept, because they can raise.                     *)
(***************************************************************************)
EXTENDS Integers, Sequences, FiniteSets, TLC

(***************************************************************************)
(* Bounds of the model.                                                    *)
(***************************************************************************)
\* longest dependencies list given to add_task
MaxDeps == 2
\* longest new_edges list given to spawn_task
MaxNewEdges == 1
\* handle calls (spawn_task, complete_task) all task bodies of one run make together
MaxCalls == 2

\* the task ids in use
TaskIds == {"A", "B", "C"}
\* the ids of the tasks the developer adds before registering (the others can
\* only be spawned)
StaticIds == {"A", "B"}

(***************************************************************************)
(* Python values: None, an int, a list of values.  Absent marks a missing  *)
(* dictionary key.                                                         *)
(***************************************************************************)
NoneV == [tag |-> "none", v |-> 0, items |-> <<>>]
Absent == [tag |-> "absent", v |-> 0, items |-> <<>>]
IntV(n) == [tag |-> "int", v |-> n, items |-> <<>>]
ListV(s) == [tag |-> "list", v |-> 0, items |-> s]

\* history values: a task that was no root; no pure call made
NotRoot == [tag |-> "notroot", v |-> 0, items |-> <<>>]
NoProbe == [op |-> "none"]
\* history value: no add_task call made
NoAddTask == [task |-> "none", dependencies |-> <<>>]
\* history value: a task no spawn_task call inserted
NotSpawned == [input_data |-> Absent, has_deps |-> FALSE,
               new_edges |-> <<>>, skip_visual_edge |-> FALSE]

\* Python truthiness, as used by `if p_output:` in run_helper
Truthy(x) ==
    \/ x.tag = "int" /\ x.v # 0
    \/ x.tag = "list" /\ x.items # <<>>

\* dict.get(key): None for a missing key
DictGet(x) == IF x = Absent THEN NoneV ELSE x

\* what a task body may return
Results == {NoneV, IntV(7)}
\* the input_map values given to run_workflow for a root (Absent: no entry)
RootInputs == {Absent, ListV(<<IntV(1)>>)}
\* the input_data values given to spawn_task (None: not provided)
SpawnInputs == {NoneV, IntV(5)}
\* the skip_visual_edge values given to spawn_task
SkipChoices == {FALSE}

(***************************************************************************)
(* Constraint records (TaskConstraints).  Lists are kept as sets: the code *)
(* only tests them for membership and emptiness.                           *)
(***************************************************************************)
NoMax == [isNone |-> TRUE, val |-> 0]
Max(n) == [isNone |-> FALSE, val |-> n]

DefaultConstraints ==
    [max_spawn_count |-> NoMax,
     valid_next_nodes_policy |-> "allow_all", valid_next_nodes |-> {},
     valid_previous_nodes_policy |-> "allow_all", valid_previous_nodes |-> {},
     valid_incoming_edges_policy |-> "allow_all", valid_incoming_edges |-> {},
     valid_outgoing_edges_policy |-> "allow_all", valid_outgoing_edges |-> {}]

valid_policies == {"allow_all", "allow_none", "custom"}

\* a validate that checks the policy tokens and the allow_none lists only
validate_no_custom_check(c) ==
    /\ ~(~c.max_spawn_count.isNone /\ c.max_spawn_count.val # 0 /\ c.max_spawn_count.val < 0)
    /\ c.valid_next_nodes_policy \in valid_policies
    /\ c.valid_previous_nodes_policy \in valid_policies
    /\ c.valid_incoming_edges_policy \in valid_policies
    /\ c.valid_outgoing_edges_policy \in valid_policies
    /\ ~(c.valid_next_nodes_policy = "allow_none" /\ c.valid_next_nodes # {})
    /\ ~(c.valid_previous_nodes_policy = "allow_none" /\ c.valid_previous_nodes # {})
    /\ ~(c.valid_incoming_edges_policy = "allow_none" /\ c.valid_incoming_edges # {})
    /\ ~(c.valid_outgoing_edges_policy = "allow_none" /\ c.valid_outgoing_edges # {})

\* TaskConstraints.validate: TRUE iff construction does not raise
validate(c) ==
    /\ ~(~c.max_spawn_count.isNone /\ c.max_spawn_count.val # 0 /\ c.max_spawn_count.val < 0)
    /\ c.valid_next_nodes_policy \in valid_policies
    /\ c.valid_previous_nodes_policy \in valid_policies
    /\ c.valid_incoming_edges_policy \in valid_policies
    /\ c.valid_outgoing_edges_policy \in valid_policies
    /\ ~(c.valid_next_nodes_policy = "allow_none" /\ c.valid_next_nodes # {})
    /\ ~(c.valid_next_nodes_policy = "custom" /\ c.valid_next_nodes = {})
    /\ ~(c.valid_previous_nodes_policy = "allow_none" /\ c.valid_previous_nodes # {})
    /\ ~(c.valid_previous_nodes_policy = "custom" /\ c.valid_previous_nodes = {})
    /\ ~(c.valid_incoming_edges_policy = "allow_none" /\ c.valid_incoming_edges # {})
    /\ ~(c.valid_incoming_edges_policy = "custom" /\ c.valid_incoming_edges = {})
    /\ ~(c.valid_outgoing_edges_policy = "allow_none" /\ c.valid_outgoing_edges # {})
    /\ ~(c.valid_outgoing_edges_policy = "custom" /\ c.valid_outgoing_edges = {})

\* The Task objects the developer constructs, one per id (as the demos keep
\* them in GLOBAL_TASKS): each workflow below gives every id its record.
AllDefault == [t \in TaskIds |-> DefaultConstraints]

\* A constrained workflow: A is a branch node as in demo2 (one spawn, listed
\* next nodes, listed outgoing edges) that takes no incoming edge; B may not
\* spawn and lists its incoming edges; C is reduce-like as in demo3 (listed
\* creators, listed incoming edges).
Constrained ==
    [AllDefault EXCEPT
        !["A"] = [DefaultConstraints EXCEPT
                    !.max_spawn_count = Max(1),
                    !.valid_next_nodes_policy = "custom",
                    !.valid_next_nodes = {"B", "C"},
                    !.valid_outgoing_edges_policy = "custom",
                    !.valid_outgoing_edges = {<<"A", "B">>},
                    !.valid_incoming_edges_policy = "allow_none"],
        !["B"] = [DefaultConstraints EXCEPT
                    !.max_spawn_count = Max(0),
                    !.valid_incoming_edges_policy = "custom",
                    !.valid_incoming_edges = {<<"C", "B">>}],
        !["C"] = [DefaultConstraints EXCEPT
                    !.valid_previous_nodes_policy = "custom",
                    !.valid_previous_nodes = {"B"},
                    !.valid_incoming_edges_policy = "custom",
                    !.valid_incoming_edges = {<<"B", "C">>}]]

Configs == {AllDefault, Constrained}

VARIABLES
    cons,               \* task id -> the constraint record of its Task object
    tasks,              \* wf.tasks, the ids in insertion order
    edges,              \* wf.edges
    visual_edges,       \* wf.visual_edges
    registered,         \* wf.workflow_id in orchestrator.workflows
    task_status,        \* task id -> status ("none": no entry)
    task_inputs,        \* task id -> inputs recorded at dispatch
    task_outputs,       \* task id -> result recorded by complete_task
    spawn_counts,       \* task id -> int
    execution_history,  \* task id -> step (0: no entry)
    ready_queue,        \* the deque of <<task id, inputs>>
    running_loops,      \* the workflow's running_loops flag
    pc,                 \* where the developer / run_workflow stands
    cur,                \* the task whose body is running ("none" outside a body)
    exc,                \* the error a handle call has just raised into the body
    calls,              \* handle calls made by the bodies of this run
    last,               \* history: the last API call and how it ended
    aborted,            \* history: a spawn_task abort of this run reached task_runner
    okSpawns,           \* history: task id -> spawn_task calls it created that returned
    root_inputs,        \* history: root id -> its input_data entry at the last run_workflow
    unrelated,          \* history: the edges of the last spawn_task call's new_edges
                        \*          that touch neither its creator nor its new task
    probe,              \* a call of a pure function: its arguments and its result
    spawn_args,         \* history: spawned task id -> the input_data, new_edges and
                        \*          skip_visual_edge of the spawn_task call that
                        \*          inserted it, and whether that call left it with
                        \*          an incoming edge
    add_args            \* history: the task id and the dependencies list of the
                        \*          last add_task call

vars == <<cons, tasks, edges, visual_edges, registered, task_status, task_inputs,
          task_outputs, spawn_counts, execution_history, ready_queue, running_loops,
          pc, cur, exc, calls, last, aborted, okSpawns, root_inputs, unrelated, probe,
          spawn_args, add_args>>

wfVars == <<tasks, edges, visual_edges>>
orchVars == <<task_status, task_inputs, task_outputs, spawn_counts, execution_history,
              ready_queue, running_loops>>

(***************************************************************************)
(* Sequences and graphs.                                                   *)
(***************************************************************************)
Range(s) == {s[i] : i \in 1..Len(s)}

SeqsUpTo(S, n) == UNION {[1..k -> S] : k \in 0..n}

Max2(a, b) == IF a >= b THEN a ELSE b

RECURSIVE MaxOver(_, _)
\* max(f[t] for t in S), 0 for the empty set
MaxOver(f, S) ==
    IF S = {} THEN 0
    ELSE LET t == CHOOSE x \in S : TRUE IN Max2(f[t], MaxOver(f, S \ {t}))

RECURSIVE ReachFrom(_, _, _)
\* the nodes reachable from the set S along E in at most k more steps
ReachFrom(S, E, k) ==
    LET next == S \cup {e[2] : e \in {x \in E : x[1] \in S}}
    IN IF k = 0 \/ next = S THEN S ELSE ReachFrom(next, E, k - 1)

\* networkx.is_directed_acyclic_graph on the graph built from the edge list
\* (a self-loop is a cycle; isolated nodes cannot close one)
IsDag(E) ==
    \A e \in E : e[1] \notin ReachFrom({e[2]}, E, Cardinality(E))

\* the predecessors of c in edge-insertion order: rev[c] of run_workflow/run_helper
RECURSIVE Preds(_, _)
Preds(es, c) ==
    IF es = <<>> THEN <<>>
    ELSE IF Head(es)[2] = c THEN <<Head(es)[1]>> \o Preds(Tail(es), c)
    ELSE Preds(Tail(es), c)

(***************************************************************************)
(* The policy checks of workflow.py.  TRUE: the check returns; FALSE: it   *)
(* raises RuntimeError.                                                    *)
(***************************************************************************)
check_node_against_policy(taskA, taskB, direction) ==
    IF direction = "next"
    THEN LET policy == cons[taskA].valid_next_nodes_policy
         IN IF policy = "allow_all" THEN TRUE
            ELSE IF policy = "allow_none" THEN FALSE
            ELSE IF policy = "custom" THEN taskB \in cons[taskA].valid_next_nodes
            ELSE TRUE
    ELSE LET policy == cons[taskB].valid_previous_nodes_policy
         IN IF policy = "allow_all" THEN TRUE
            ELSE IF policy = "allow_none" THEN FALSE
            ELSE IF policy = "custom" THEN taskA \in cons[taskB].valid_previous_nodes
            ELSE TRUE

\* In the custom branch the source compares the policy (which is "custom"
\* there) with the direction names, so neither raise can be reached.
check_edge_against_policy(taskA, taskB, direction) ==
    LET policy == IF direction = "outgoing"
                  THEN cons[taskA].valid_outgoing_edges_policy
                  ELSE cons[taskA].valid_incoming_edges_policy
        valid_edges == IF direction = "outgoing"
                       THEN cons[taskA].valid_outgoing_edges
                       ELSE cons[taskA].valid_incoming_edges
    IN IF policy = "allow_all" THEN TRUE
       ELSE IF policy = "allow_none" THEN FALSE
       ELSE IF policy = "custom"
            THEN /\ ~(policy = "outgoing" /\ <<taskA, taskB>> \notin valid_edges)
                 /\ ~(policy = "incoming" /\ <<taskB, taskA>> \notin valid_edges)
       ELSE TRUE

(***************************************************************************)
(* Workflow.add_task.                                                      *)
(***************************************************************************)
\* an _assert_no_cycle that never raises
assert_no_cycle_unchecked(es) == TRUE

\* Workflow._assert_no_cycle: TRUE iff it does not raise
assert_no_cycle(es) == IsDag(Range(es))

\* the four checks add_task makes for one dependency, in the source's order
DepAdmitted(dep, task) ==
    /\ check_node_against_policy(dep, task, "next")
    /\ check_node_against_policy(dep, task, "previous")
    /\ check_edge_against_policy(task, dep, "incoming")
    /\ check_edge_against_policy(dep, task, "outgoing")

\* a dependencies loop that appends every dependency without any check
AddDeps_unchecked(task, deps, ts, es, ves) ==
    [edges |-> es \o [i \in 1..Len(deps) |-> <<deps[i], task>>],
     visual_edges |-> ves \o [i \in 1..Len(deps) |-> <<deps[i], task>>],
     outcome |-> "ok"]

RECURSIVE AddDeps(_, _, _, _, _)
\* the loop over dependencies: the lists as it leaves them, and how it ended
AddDeps(task, deps, ts, es, ves) ==
    IF deps = <<>> THEN [edges |-> es, visual_edges |-> ves, outcome |-> "ok"]
    ELSE LET dep == Head(deps) IN
         IF dep \notin Range(ts)
         THEN [edges |-> es, visual_edges |-> ves, outcome |-> "unknown_dependency"]
         ELSE IF ~DepAdmitted(dep, task)
         THEN [edges |-> es, visual_edges |-> ves, outcome |-> "policy"]
         ELSE AddDeps(task, Tail(deps), ts,
                      Append(es, <<dep, task>>), Append(ves, <<dep, task>>))

\* an add_task without the test for an id already present
add_task_no_duplicate_test(task, deps, ts, es, ves) ==
    LET ts1 == Append(ts, task)
        r == AddDeps(task, deps, ts1, es, ves)
    IN [tasks |-> ts1, edges |-> r.edges, visual_edges |-> r.visual_edges,
        outcome |-> IF r.outcome # "ok" THEN r.outcome
                    ELSE IF assert_no_cycle(r.edges) THEN "ok" ELSE "cycle"]

\* add_task(task, dependencies) on the workflow (ts, es, ves)
add_task(task, deps, ts, es, ves) ==
    IF task \in Range(ts)
    THEN [tasks |-> ts, edges |-> es, visual_edges |-> ves, outcome |-> "duplicate"]
    ELSE LET ts1 == Append(ts, task)
             r == AddDeps(task, deps, ts1, es, ves)
         IN [tasks |-> ts1, edges |-> r.edges, visual_edges |-> r.visual_edges,
             outcome |-> IF r.outcome # "ok" THEN r.outcome
                         ELSE IF assert_no_cycle(r.edges) THEN "ok" ELSE "cycle"]

(***************************************************************************)
(* Orchestrator: the pieces spawn_task, complete_task and the loop use.    *)
(***************************************************************************)
Terminal(s) == s \in {"done", "failed"}

\* a spawn_task that skips its cycle check
is_acyclic_unchecked(es) == TRUE

\* Orchestrator.is_acyclic
is_acyclic(es) == IsDag(Range(es))

\* a fail_workflow that marks only the pending tasks failed
FailedStatuses_pending_only(ts, st) ==
    [t \in TaskIds |-> IF t \in Range(ts) /\ st[t] = "pending" THEN "failed" ELSE st[t]]

\* fail_workflow: the statuses after every pending/running task of the
\* workflow is marked failed
FailedStatuses(ts, st) ==
    [t \in TaskIds |->
        IF t \in Range(ts) /\ st[t] \in {"pending", "running"} THEN "failed" ELSE st[t]]

\* a fail_workflow that leaves the ready queue as it is
fail_workflow_keeps_queue(S, why) ==
    [S EXCEPT !.outcome = "abort", !.why = why,
              !.task_status = FailedStatuses(S.tasks, S.task_status),
              !.running_loops = FALSE]

\* fail_workflow on the state S of a spawn_task call in progress: the queue
\* cleared, the statuses failed, the flag cleared, RuntimeError raised
fail_workflow(S, why) ==
    [S EXCEPT !.outcome = "abort", !.why = why,
              !.ready_queue = <<>>,
              !.task_status = FailedStatuses(S.tasks, S.task_status),
              !.running_loops = FALSE]

\* a quota test that is off by one (> for >=)
QuotaExceeded_off_by_one(creator, counts) ==
    /\ ~cons[creator].max_spawn_count.isNone
    /\ counts[creator] > cons[creator].max_spawn_count.val

\* the creator's max_spawn_count is set and already used up
QuotaExceeded(creator, counts) ==
    /\ ~cons[creator].max_spawn_count.isNone
    /\ counts[creator] >= cons[creator].max_spawn_count.val

\* the two node checks spawn_task makes on (creator, new_task)
SpawnNodeAdmitted(creator, new_task) ==
    /\ check_node_against_policy(creator, new_task, "next")
    /\ check_node_against_policy(creator, new_task, "previous")

\* the endpoint test of the new_edges loop
EdgeRelated(src, dst, creator, new_task) ==
    ~(src \notin {creator, new_task} /\ dst \notin {creator, new_task})

\* the two edge checks spawn_task makes on a new edge, in the source's order
SpawnEdgeAdmitted(src, dst) ==
    /\ check_edge_against_policy(dst, src, "incoming")
    /\ check_edge_against_policy(src, dst, "outgoing")

\* a new_edges loop that appends nothing
SpawnEdges_appends_nothing(new_edges, creator, new_task, S) == S

RECURSIVE SpawnEdges(_, _, _, _)
\* the loop over new_edges, from the state S
SpawnEdges(new_edges, creator, new_task, S) ==
    IF new_edges = <<>> THEN S
    ELSE LET src == Head(new_edges)[1]
             dst == Head(new_edges)[2]
         IN IF ~EdgeRelated(src, dst, creator, new_task)
            THEN fail_workflow(S, "unrelated_edge")
            ELSE IF src \notin Range(S.tasks) \/ dst \notin Range(S.tasks)
            THEN [S EXCEPT !.outcome = "KeyError", !.why = "unknown_endpoint"]
            ELSE IF ~SpawnEdgeAdmitted(src, dst)
            THEN fail_workflow(S, "edge_policy")
            ELSE SpawnEdges(Tail(new_edges), creator, new_task,
                     [S EXCEPT !.edges = Append(@, <<src, dst>>),
                               !.visual_edges = Append(@, <<src, dst>>)])

\* an immediate enqueue that does not look at the edges
SpawnEnqueue_ignores_edges(new_task, input_data, es) == input_data # NoneV

\* the immediate enqueue at the end of spawn_task
SpawnEnqueue(new_task, input_data, es) ==
    /\ input_data # NoneV
    /\ ~(\E e \in Range(es) : e[2] = new_task)

\* a spawn_task that inserts the new task before it tests for an id already
\* present
spawn_task_inserts_first(creator, new_task, new_edges, input_data, skip_visual_edge) ==
    LET S0 == [outcome |-> "ok", why |-> "ok",
               tasks |-> tasks, edges |-> edges, visual_edges |-> visual_edges,
               task_status |-> task_status, spawn_counts |-> spawn_counts,
               execution_history |-> execution_history,
               ready_queue |-> ready_queue, running_loops |-> running_loops]
    IN IF creator \notin Range(tasks) THEN fail_workflow(S0, "creator")
       ELSE IF QuotaExceeded(creator, spawn_counts) THEN fail_workflow(S0, "quota")
       ELSE IF ~SpawnNodeAdmitted(creator, new_task) THEN fail_workflow(S0, "node_policy")
       ELSE
       LET parent_step == execution_history[creator]
           S1 == [S0 EXCEPT
                    !.tasks = Append(@, new_task),
                    !.task_status = [@ EXCEPT ![new_task] = "pending"],
                    !.spawn_counts = [[@ EXCEPT ![new_task] = 0]
                                        EXCEPT ![creator] = @ + 1],
                    !.execution_history = [@ EXCEPT ![new_task] = parent_step + 1],
                    !.visual_edges = IF skip_visual_edge THEN @
                                     ELSE Append(@, <<creator, new_task>>)]
           S2 == SpawnEdges(new_edges, creator, new_task, S1)
       IN IF new_task \in Range(tasks) THEN fail_workflow(S1, "duplicate")
          ELSE IF S2.outcome # "ok" THEN S2
          ELSE IF ~is_acyclic(S2.edges) THEN fail_workflow(S2, "cycle")
          ELSE IF SpawnEnqueue(new_task, input_data, S2.edges)
          THEN [S2 EXCEPT !.ready_queue = Append(@, <<new_task, input_data>>)]
          ELSE S2

\* spawn_task(creator_task_id, new_task, new_edges, input_data, skip_visual_edge)
\* on the current state: the state it leaves, and how it ended
spawn_task(creator, new_task, new_edges, input_data, skip_visual_edge) ==
    LET S0 == [outcome |-> "ok", why |-> "ok",
               tasks |-> tasks, edges |-> edges, visual_edges |-> visual_edges,
               task_status |-> task_status, spawn_counts |-> spawn_counts,
               execution_history |-> execution_history,
               ready_queue |-> ready_queue, running_loops |-> running_loops]
    IN IF creator \notin Range(tasks) THEN fail_workflow(S0, "creator")
       ELSE IF QuotaExceeded(creator, spawn_counts) THEN fail_workflow(S0, "quota")
       ELSE IF ~SpawnNodeAdmitted(creator, new_task) THEN fail_workflow(S0, "node_policy")
       ELSE IF new_task \in Range(tasks) THEN fail_workflow(S0, "duplicate")
       ELSE
       LET parent_step == execution_history[creator]
           S1 == [S0 EXCEPT
                    !.tasks = Append(@, new_task),
                    !.task_status = [@ EXCEPT ![new_task] = "pending"],
                    !.spawn_counts = [[@ EXCEPT ![new_task] = 0]
                                        EXCEPT ![creator] = @ + 1],
                    !.execution_history = [@ EXCEPT ![new_task] = parent_step + 1],
                    !.visual_edges = IF skip_visual_edge THEN @
                                     ELSE Append(@, <<creator, new_task>>)]
           S2 == SpawnEdges(new_edges, creator, new_task, S1)
       IN IF S2.outcome # "ok" THEN S2
          ELSE IF ~is_acyclic(S2.edges) THEN fail_workflow(S2, "cycle")
          ELSE IF SpawnEnqueue(new_task, input_data, S2.edges)
          THEN [S2 EXCEPT !.ready_queue = Append(@, <<new_task, input_data>>)]
          ELSE S2

\* complete_task leaves a status that is neither running nor pending alone
CompleteApplies(st) == ~(st \notin {"running", "pending"})

\* check_task_status(task_id)
check_task_status(t) ==
    LET s == IF task_status[t] = "none" THEN "unknown" ELSE task_status[t]
    IN [status |-> s,
        result |-> IF s = "done" THEN DictGet(task_outputs[t]) ELSE NoneV]

\* visualize reads execution_history[key] of every task that is not pending:
\* a task without an entry makes it raise KeyError
VisualizeRaises(ts, st, hist) ==
    \E t \in Range(ts) : st[t] # "pending" /\ hist[t] = 0

(***************************************************************************)
(* The scheduling loop's computations.                                     *)
(***************************************************************************)
\* input_data.get(t_id, [])
InputFor(input_map, t) == IF input_map[t] = Absent THEN ListV(<<>>) ELSE input_map[t]

RECURSIVE RootEntries(_, _, _)
\* run_workflow: the queue entries of the tasks with no incoming edge
RootEntries(ts, es, input_map) ==
    IF ts = <<>> THEN <<>>
    ELSE IF Preds(es, Head(ts)) = <<>>
         THEN <<<<Head(ts), InputFor(input_map, Head(ts))>>>> \o RootEntries(Tail(ts), es, input_map)
         ELSE RootEntries(Tail(ts), es, input_map)

\* run_helper: no predecessor is pending or running
AllDone(preds, st) == \A i \in 1..Len(preds) : st[preds[i]] \notin {"pending", "running"}

\* run_helper: the predecessor's output is appended when it is truthy
OutputCounts(p_output) == Truthy(p_output)

RECURSIVE AssembleInputs(_, _)
\* run_helper: the inputs list built from the predecessors' outputs
AssembleInputs(preds, outs) ==
    IF preds = <<>> THEN <<>>
    ELSE LET p_output == DictGet(outs[Head(preds)])
         IN (IF OutputCounts(p_output) THEN <<p_output>> ELSE <<>>)
            \o AssembleInputs(Tail(preds), outs)

RECURSIVE NewlyUnblocked(_, _, _, _)
\* run_helper: the pending tasks whose predecessors are all terminal, with
\* their inputs, in tasks order
NewlyUnblocked(ts, es, st, outs) ==
    IF ts = <<>> THEN <<>>
    ELSE LET t == Head(ts)
             preds == Preds(es, t)
         IN (IF st[t] = "pending" /\ AllDone(preds, st)
             THEN <<<<t, ListV(AssembleInputs(preds, outs))>>>> ELSE <<>>)
            \o NewlyUnblocked(Tail(ts), es, st, outs)

\* a current_step that is the largest step itself
CurrentStep_not_incremented(ts, hist) == MaxOver(hist, Range(ts))

\* run_helper: current_step
CurrentStep(ts, hist) == MaxOver(hist, Range(ts)) + 1

\* an exit test with any() for all()
AllTerminal_any(ts, st) == \E t \in Range(ts) : st[t] \in {"done", "failed"}

\* run_workflow's exit test
AllTerminal(ts, st) == \A t \in Range(ts) : st[t] \in {"done", "failed"}

\* an except branch that makes the task pending again
RunnerFailStatus_pending_again(st) == "pending"

\* an except branch that leaves the status as it is
RunnerFailStatus_unchanged(st) == st

\* task_runner's except branch sets the status whatever it was
RunnerFailStatus(st) == "failed"

\* where run_workflow stands once spawn_parallel has returned and visualize ran
AfterDispatch(ts, st, hist) == IF VisualizeRaises(ts, st, hist) THEN "raised" ELSE "drain"

(***************************************************************************)
(* Init and the actions.                                                   *)
(***************************************************************************)
Init ==
    /\ cons \in Configs
    /\ tasks = <<>>
    /\ edges = <<>>
    /\ visual_edges = <<>>
    /\ registered = FALSE
    /\ task_status = [t \in TaskIds |-> "none"]
    /\ task_inputs = [t \in TaskIds |-> Absent]
    /\ task_outputs = [t \in TaskIds |-> Absent]
    /\ spawn_counts = [t \in TaskIds |-> 0]
    /\ execution_history = [t \in TaskIds |-> 0]
    /\ ready_queue = <<>>
    /\ running_loops = FALSE
    /\ pc = "build"
    /\ cur = "none"
    /\ exc = "none"
    /\ calls = 0
    /\ last = [op |-> "none", outcome |-> "ok"]
    /\ aborted = FALSE
    /\ okSpawns = [t \in TaskIds |-> 0]
    /\ root_inputs = [t \in TaskIds |-> NotRoot]
    /\ unrelated = {}
    /\ probe = NoProbe
    /\ spawn_args = [t \in TaskIds |-> NotSpawned]
    /\ add_args = NoAddTask

\* the developer calls add_task(task, dependencies); a workflow whose add_task
\* raised is discarded by the developer, as the errors of static registration
\* require
AddTask(task, deps) ==
    /\ pc = "build"
    /\ \E r \in {add_task(task, deps, tasks, edges, visual_edges)} :
          /\ tasks' = r.tasks
          /\ edges' = r.edges
          /\ visual_edges' = r.visual_edges
          /\ last' = [op |-> "add_task", outcome |-> r.outcome]
          /\ pc' = IF r.outcome = "ok" THEN "build" ELSE "discarded"
    /\ add_args' = [task |-> task, dependencies |-> deps]
    /\ UNCHANGED <<cons, spawn_args, probe, root_inputs, unrelated>>
    /\ UNCHANGED <<registered, orchVars, cur, exc, calls, aborted, okSpawns>>

\* register_workflow(wf)
RegisterWorkflow ==
    /\ pc = "build"
    /\ registered' = TRUE
    /\ task_status' = [t \in TaskIds |-> IF t \in Range(tasks) THEN "pending" ELSE "none"]
    /\ spawn_counts' = [t \in TaskIds |-> 0]
    /\ ready_queue' = <<>>
    /\ running_loops' = FALSE
    /\ pc' = "idle"
    /\ last' = [op |-> "register_workflow", outcome |-> "ok"]
    /\ UNCHANGED <<cons, spawn_args, add_args, probe, root_inputs, unrelated>>
    /\ UNCHANGED <<wfVars, task_inputs, task_outputs, execution_history,
                   cur, exc, calls, aborted, okSpawns>>

\* a registration test that never finds the id
AlreadyRegistered_never(reg) == FALSE

\* register_workflow's test `wf.workflow_id in self.workflows`
AlreadyRegistered(reg) == reg

\* register_workflow(wf) called again with the same id, by the developer
\* between runs or by a task body through its handle: ValueError
RegisterAgain ==
    /\ \/ pc \in {"idle", "returned", "raised"}
       \/ pc = "body" /\ exc = "none" /\ calls < MaxCalls
    /\ IF AlreadyRegistered(registered)
       THEN /\ last' = [op |-> "register_workflow", outcome |-> "already_registered"]
            /\ exc' = IF pc = "body" THEN "ValueError" ELSE exc
            /\ UNCHANGED <<registered, orchVars>>
       ELSE /\ registered' = TRUE
            /\ task_status' = [t \in TaskIds |-> IF t \in Range(tasks) THEN "pending" ELSE "none"]
            /\ spawn_counts' = [t \in TaskIds |-> 0]
            /\ ready_queue' = <<>>
            /\ running_loops' = FALSE
            /\ last' = [op |-> "register_workflow", outcome |-> "ok"]
            /\ UNCHANGED <<task_inputs, task_outputs, execution_history, exc>>
    /\ calls' = IF pc = "body" THEN calls + 1 ELSE calls
    /\ UNCHANGED <<cons, spawn_args, add_args, probe, root_inputs, unrelated>>
    /\ UNCHANGED <<wfVars, pc, cur, aborted, okSpawns>>

\* a flag test that never finds the flag set
AlreadyRunning_never(flag) == FALSE

\* run_workflow's test of the running_loops flag
AlreadyRunning(flag) == flag

\* run_workflow(wf_id, input_data), up to the first run_helper call
RunWorkflow(input_map) ==
    /\ pc = "idle"
    /\ registered
    /\ IF AlreadyRunning(running_loops)
       THEN /\ last' = [op |-> "run_workflow", outcome |-> "already_running"]
            /\ UNCHANGED <<orchVars, pc, calls, aborted, root_inputs>>
       ELSE /\ running_loops' = TRUE
            /\ ready_queue' = ready_queue \o RootEntries(tasks, edges, input_map)
            /\ root_inputs' = [t \in TaskIds |->
                                 IF t \in Range(tasks) /\ Preds(edges, t) = <<>>
                                 THEN input_map[t] ELSE NotRoot]
            /\ pc' = "discover"
            /\ calls' = 0
            /\ aborted' = FALSE
            /\ last' = [op |-> "run_workflow", outcome |-> "running"]
            /\ UNCHANGED <<task_status, task_inputs, task_outputs, spawn_counts,
                           execution_history>>
    /\ UNCHANGED <<cons, spawn_args, add_args, probe, unrelated>>
    /\ UNCHANGED <<wfVars, registered, cur, exc, okSpawns>>

\* run_workflow(wf_id, input_data) called again: by the developer after a call
\* that ended by raising, or by a task body while the loop that runs it holds
\* the flag (RuntimeError into the body)
RunWorkflowAgain(input_map) ==
    /\ registered
    /\ \/ pc = "raised"
       \/ pc = "body" /\ exc = "none" /\ calls < MaxCalls /\ running_loops
    /\ IF AlreadyRunning(running_loops)
       THEN /\ last' = [op |-> "run_workflow", outcome |-> "already_running"]
            /\ exc' = IF pc = "body" THEN "RuntimeError" ELSE exc
            /\ calls' = IF pc = "body" THEN calls + 1 ELSE calls
            /\ UNCHANGED <<orchVars, pc, aborted, root_inputs>>
       ELSE /\ running_loops' = TRUE
            /\ ready_queue' = ready_queue \o RootEntries(tasks, edges, input_map)
            /\ root_inputs' = [t \in TaskIds |->
                                 IF t \in Range(tasks) /\ Preds(edges, t) = <<>>
                                 THEN input_map[t] ELSE NotRoot]
            /\ pc' = "discover"
            /\ calls' = 0
            /\ aborted' = FALSE
            /\ last' = [op |-> "run_workflow", outcome |-> "running"]
            /\ UNCHANGED <<task_status, task_inputs, task_outputs, spawn_counts,
                           execution_history, exc>>
    /\ UNCHANGED <<cons, spawn_args, add_args, probe, unrelated>>
    /\ UNCHANGED <<wfVars, registered, cur, okSpawns>>

\* run_helper, the discovery pass (max() of no tasks raises ValueError)
Discover ==
    /\ pc = "discover"
    /\ IF tasks = <<>>
       THEN /\ pc' = "raised"
            /\ last' = [op |-> "run_workflow", outcome |-> "ValueError"]
            /\ UNCHANGED <<ready_queue, execution_history>>
       ELSE LET current_step == CurrentStep(tasks, execution_history)
                newly_unblocked == NewlyUnblocked(tasks, edges, task_status, task_outputs)
            IN /\ ready_queue' = ready_queue \o newly_unblocked
               /\ execution_history' =
                    [t \in TaskIds |->
                        IF \E i \in 1..Len(newly_unblocked) : newly_unblocked[i][1] = t
                        THEN current_step ELSE execution_history[t]]
               /\ pc' = "drain"
               /\ UNCHANGED last
    /\ UNCHANGED <<cons, spawn_args, add_args, probe, root_inputs, unrelated>>
    /\ UNCHANGED <<wfVars, registered, task_status, task_inputs, task_outputs,
                   spawn_counts, running_loops, cur, exc, calls, aborted, okSpawns>>

\* run_helper pops the queue and calls spawn_parallel, which starts the body
\* of a task that is still pending; then visualize
Dispatch ==
    /\ pc = "drain"
    /\ ready_queue # <<>>
    /\ LET tid == Head(ready_queue)[1]
           inputs == Head(ready_queue)[2]
       IN /\ ready_queue' = Tail(ready_queue)
          /\ IF task_status[tid] = "pending"
             THEN /\ task_status' = [task_status EXCEPT ![tid] = "running"]
                  /\ task_inputs' = [task_inputs EXCEPT ![tid] = inputs]
                  /\ pc' = "body"
                  /\ cur' = tid
                  /\ UNCHANGED last
             ELSE /\ pc' = AfterDispatch(tasks, task_status, execution_history)
                  /\ last' = IF pc' = "raised"
                             THEN [op |-> "run_workflow", outcome |-> "KeyError"]
                             ELSE last
                  /\ UNCHANGED <<task_status, task_inputs, cur>>
    /\ UNCHANGED <<cons, spawn_args, add_args, probe, root_inputs, unrelated>>
    /\ UNCHANGED <<wfVars, registered, task_outputs, spawn_counts,
                   execution_history, running_loops, exc, calls, aborted, okSpawns>>

\* the queue is empty: run_helper returns and run_workflow tests for the exit
ExitCheck ==
    /\ pc = "drain"
    /\ ready_queue = <<>>
    /\ IF AllTerminal(tasks, task_status)
       THEN /\ running_loops' = FALSE
            /\ pc' = "returned"
            /\ last' = [op |-> "run_workflow", outcome |-> "returned"]
       ELSE /\ pc' = "discover"
            /\ UNCHANGED <<running_loops, last>>
    /\ UNCHANGED <<cons, spawn_args, add_args, probe, root_inputs, unrelated>>
    /\ UNCHANGED <<wfVars, registered, task_status, task_inputs, task_outputs,
                   spawn_counts, execution_history, ready_queue, cur, exc, calls,
                   aborted, okSpawns>>

\* the running body calls spawn_task
BodySpawnTask(creator, new_task, new_edges, input_data, skip_visual_edge) ==
    /\ pc = "body"
    /\ exc = "none"
    /\ calls < MaxCalls
    /\ \E r \in {spawn_task(creator, new_task, new_edges, input_data, skip_visual_edge)} :
          /\ tasks' = r.tasks
          /\ edges' = r.edges
          /\ visual_edges' = r.visual_edges
          /\ task_status' = r.task_status
          /\ spawn_counts' = r.spawn_counts
          /\ execution_history' = r.execution_history
          /\ ready_queue' = r.ready_queue
          /\ running_loops' = r.running_loops
          /\ exc' = IF r.outcome = "ok" THEN "none" ELSE r.outcome
          /\ last' = [op |-> "spawn_task", outcome |-> r.why]
          /\ okSpawns' = IF r.outcome = "ok"
                         THEN [okSpawns EXCEPT ![creator] = @ + 1] ELSE okSpawns
          /\ spawn_args' = IF r.outcome = "ok"
                           THEN [spawn_args EXCEPT ![new_task] =
                                   [input_data |-> input_data,
                                    has_deps |-> \E e \in Range(r.edges) : e[2] = new_task,
                                    new_edges |-> new_edges,
                                    skip_visual_edge |-> skip_visual_edge]]
                           ELSE spawn_args
    /\ unrelated' = {e \in Range(new_edges) :
                        e[1] \notin {creator, new_task} /\ e[2] \notin {creator, new_task}}
    /\ calls' = calls + 1
    /\ UNCHANGED <<cons, add_args, probe, root_inputs>>
    /\ UNCHANGED <<registered, task_inputs, task_outputs, pc, cur, aborted>>

\* the running body calls complete_task(task_id, result) through its handle
BodyCompleteTask(task_id, result) ==
    /\ pc = "body"
    /\ exc = "none"
    /\ calls < MaxCalls
    /\ IF task_status[task_id] = "none"
       THEN /\ exc' = "KeyError"
            /\ last' = [op |-> "complete_task", outcome |-> "KeyError"]
            /\ UNCHANGED <<task_status, task_outputs>>
       ELSE IF CompleteApplies(task_status[task_id])
       THEN /\ task_status' = [task_status EXCEPT ![task_id] = "done"]
            /\ task_outputs' = [task_outputs EXCEPT ![task_id] = result]
            /\ last' = [op |-> "complete_task", outcome |-> "ok"]
            /\ UNCHANGED exc
       ELSE /\ last' = [op |-> "complete_task", outcome |-> "ignored"]
            /\ UNCHANGED <<task_status, task_outputs, exc>>
    /\ calls' = calls + 1
    /\ UNCHANGED <<cons, spawn_args, add_args, probe, root_inputs, unrelated>>
    /\ UNCHANGED <<wfVars, registered, task_inputs, spawn_counts, execution_history,
                   ready_queue, running_loops, pc, cur, aborted, okSpawns>>

\* the body catches the error a handle call raised, and goes on
BodyCatch ==
    /\ pc = "body"
    /\ exc # "none"
    /\ exc' = "none"
    /\ unrelated' = {}
    /\ UNCHANGED <<cons, spawn_args, add_args, probe, root_inputs>>
    /\ UNCHANGED <<wfVars, registered, orchVars, pc, cur, calls, last,
                   aborted, okSpawns>>

\* the body returns: task_runner calls complete_task with the result, then
\* spawn_parallel returns and run_helper calls visualize
BodyReturn(result) ==
    /\ pc = "body"
    /\ exc = "none"
    /\ IF CompleteApplies(task_status[cur])
       THEN /\ task_status' = [task_status EXCEPT ![cur] = "done"]
            /\ task_outputs' = [task_outputs EXCEPT ![cur] = result]
       ELSE UNCHANGED <<task_status, task_outputs>>
    /\ pc' = AfterDispatch(tasks, task_status', execution_history)
    /\ last' = IF pc' = "raised" THEN [op |-> "run_workflow", outcome |-> "KeyError"]
               ELSE [op |-> "task_runner", outcome |-> "returned"]
    /\ cur' = "none"
    /\ UNCHANGED <<cons, spawn_args, add_args, probe, root_inputs, unrelated>>
    /\ UNCHANGED <<wfVars, registered, task_inputs, spawn_counts, execution_history,
                   ready_queue, running_loops, exc, calls, aborted, okSpawns>>

\* an error leaves the body (its own raise, or the uncaught error of a handle
\* call): task_runner's except branch marks the task failed; then visualize
BodyRaise ==
    /\ pc = "body"
    /\ task_status' = [task_status EXCEPT ![cur] = RunnerFailStatus(task_status[cur])]
    /\ aborted' = (aborted \/ exc = "abort")
    /\ exc' = "none"
    /\ unrelated' = {}
    /\ pc' = AfterDispatch(tasks, task_status', execution_history)
    /\ last' = IF pc' = "raised" THEN [op |-> "run_workflow", outcome |-> "KeyError"]
               ELSE [op |-> "task_runner", outcome |-> "raised"]
    /\ cur' = "none"
    /\ UNCHANGED <<cons, spawn_args, add_args, probe, root_inputs>>
    /\ UNCHANGED <<wfVars, registered, task_inputs, task_outputs, spawn_counts,
                   execution_history, ready_queue, running_loops, calls, okSpawns>>

EdgePairs == TaskIds \X TaskIds

\* the input maps given to run_workflow: entries for static tasks only
InputMaps == {m \in [TaskIds -> RootInputs] : \A t \in TaskIds \ StaticIds : m[t] = Absent}

\* the creator ids a body passes to spawn_task: its own id, or an id the
\* workflow does not hold
Creators == {cur} \cup (TaskIds \ Range(tasks))

\* the spawn_task calls a body may make
BodySpawnCalls ==
    /\ pc = "body"
    /\ \E creator \in Creators, new_task \in TaskIds,
          new_edges \in SeqsUpTo(EdgePairs, MaxNewEdges),
          input_data \in SpawnInputs, skip_visual_edge \in SkipChoices :
            BodySpawnTask(creator, new_task, new_edges, input_data, skip_visual_edge)

Next ==
    \/ \E task \in StaticIds, deps \in SeqsUpTo(TaskIds, MaxDeps) : AddTask(task, deps)
    \/ RegisterWorkflow
    \/ \E input_map \in InputMaps : RunWorkflow(input_map)
    \/ Discover
    \/ Dispatch
    \/ ExitCheck
    \/ BodySpawnCalls
    \/ \E task_id \in TaskIds, result \in Results : BodyCompleteTask(task_id, result)
    \/ BodyCatch
    \/ \E result \in Results : BodyReturn(result)
    \/ BodyRaise

Spec == Init /\ [][Next]_vars

\* the same program with bodies that also return the number 0
BodyReturnsZero == BodyReturn(IntV(0))

NextZero ==
    \/ Next
    \/ BodyReturnsZero

SpecZero == Init /\ [][NextZero]_vars

\* the pairs that touch neither the creator nor the new task
UnrelatedPairs(creator, new_task) ==
    (TaskIds \ {creator, new_task}) \X (TaskIds \ {creator, new_task})

\* the new_edges lists, one longer than MaxNewEdges, which hold such a pair
\* before or after another edge
LongEdgeLists(creator, new_task) ==
    {<<e>> \o l : e \in UnrelatedPairs(creator, new_task), l \in [1..MaxNewEdges -> EdgePairs]}
    \cup {l \o <<e>> : e \in UnrelatedPairs(creator, new_task), l \in [1..MaxNewEdges -> EdgePairs]}

\* spawn_task calls with those lists
BodySpawnCallsLong ==
    /\ pc = "body"
    /\ \E creator \in Creators, new_task \in TaskIds :
         \E new_edges \in LongEdgeLists(creator, new_task),
            input_data \in SpawnInputs, skip_visual_edge \in SkipChoices :
              BodySpawnTask(creator, new_task, new_edges, input_data, skip_visual_edge)

\* the same program with bodies that also make those calls
NextEdges ==
    \/ Next
    \/ BodySpawnCallsLong

SpecEdges == Init /\ [][NextEdges]_vars

\* spawn_task calls with skip_visual_edge=True
BodySpawnCallsSkip ==
    /\ pc = "body"
    /\ \E creator \in Creators, new_task \in TaskIds,
          new_edges \in SeqsUpTo(EdgePairs, MaxNewEdges), input_data \in SpawnInputs :
            BodySpawnTask(creator, new_task, new_edges, input_data, TRUE)

\* the same program with bodies that also make those calls
NextSkip ==
    \/ Next
    \/ BodySpawnCallsSkip

SpecSkip == Init /\ [][NextSkip]_vars

(***************************************************************************)
(* The constructor of the constraint records and the edge check, applied   *)
(* once to arguments drawn from the sets below.                            *)
(***************************************************************************)
\* the policy arguments: the three tokens and one that is none of them
PolicyArgs == valid_policies \cup {"sometimes"}
\* the max_spawn_count arguments
MaxArgs == {NoMax, Max(-1), Max(0), Max(2)}
\* the list arguments
NodeListArgs == {{}, {"B"}}
EdgeListArgs == {{}, {<<"A", "B">>}}

ConstructorArgs ==
    [max_spawn_count : MaxArgs,
     valid_next_nodes_policy : PolicyArgs, valid_next_nodes : NodeListArgs,
     valid_previous_nodes_policy : PolicyArgs, valid_previous_nodes : NodeListArgs,
     valid_incoming_edges_policy : PolicyArgs, valid_incoming_edges : EdgeListArgs,
     valid_outgoing_edges_policy : PolicyArgs, valid_outgoing_edges : EdgeListArgs]

\* TaskConstraints(...): __init__ stores the arguments and calls validate
Construct(rec) ==
    /\ probe = NoProbe
    /\ pc = "build"
    /\ probe' = [op |-> "TaskConstraints", rec |-> rec, raised |-> ~validate(rec)]
    /\ UNCHANGED <<cons, spawn_args, add_args, wfVars, registered, orchVars, pc, cur, exc, calls, last,
                   aborted, okSpawns, root_inputs, unrelated>>

\* the edge check of the candidate edge src -> dst in one direction, called as
\* add_task and spawn_task call it: the consulted task is passed first
EdgeCheck(src, dst, direction) ==
    /\ probe = NoProbe
    /\ pc = "build"
    /\ probe' = [op |-> "check_edge_against_policy",
                 src |-> src, dst |-> dst, direction |-> direction,
                 raised |-> IF direction = "outgoing"
                            THEN ~check_edge_against_policy(src, dst, "outgoing")
                            ELSE ~check_edge_against_policy(dst, src, "incoming")]
    /\ UNCHANGED <<cons, spawn_args, add_args, wfVars, registered, orchVars, pc, cur, exc, calls, last,
                   aborted, okSpawns, root_inputs, unrelated>>

\* the constructor calls
ConstructCalls == probe = NoProbe /\ \E rec \in ConstructorArgs : Construct(rec)

NextPure ==
    \/ ConstructCalls
    \/ \E src \in TaskIds, dst \in TaskIds, direction \in {"outgoing", "incoming"} :
          EdgeCheck(src, dst, direction)

SpecPure == Init /\ [][NextPure]_vars

\* the same program with the callers that call register_workflow and
\* run_workflow a second time
NextAgain ==
    \/ Next
    \/ RegisterAgain
    \/ \E input_map \in InputMaps : RunWorkflowAgain(input_map)

SpecAgain == Init /\ [][NextAgain]_vars

\* run_workflow(wf_id, input_data) called again by the developer after a call
\* that returned
RunWorkflowAfterReturn(input_map) ==
    /\ registered
    /\ pc = "returned"
    /\ IF AlreadyRunning(running_loops)
       THEN /\ last' = [op |-> "run_workflow", outcome |-> "already_running"]
            /\ UNCHANGED <<orchVars, pc, calls, aborted, root_inputs>>
       ELSE /\ running_loops' = TRUE
            /\ ready_queue' = ready_queue \o RootEntries(tasks, edges, input_map)
            /\ root_inputs' = [t \in TaskIds |->
                                 IF t \in Range(tasks) /\ Preds(edges, t) = <<>>
                                 THEN input_map[t] ELSE NotRoot]
            /\ pc' = "discover"
            /\ calls' = 0
            /\ aborted' = FALSE
            /\ last' = [op |-> "run_workflow", outcome |-> "running"]
            /\ UNCHANGED <<task_status, task_inputs, task_outputs, spawn_counts,
                           execution_history>>
    /\ UNCHANGED <<cons, spawn_args, add_args, probe, unrelated>>
    /\ UNCHANGED <<wfVars, registered, cur, exc, okSpawns>>

\* the same program with a developer who also runs the workflow again after a
\* run that returned
NextRerun ==
    \/ NextAgain
    \/ \E input_map \in InputMaps : RunWorkflowAfterReturn(input_map)

SpecRerun == Init /\ [][NextRerun]_vars

(***************************************************************************)
(* The properties.                                                         *)
(***************************************************************************)
EdgeSet == Range(edges)

\* the tasks the workflow holds
TaskSet == Range(tasks)

\* a directed cycle: nodes n1 .. nk with an edge from each to the next and
\* from nk back to n1 (a simple cycle visits at most every id once)
HasCycle(E) ==
    \E path \in SeqsUpTo(TaskIds, Cardinality(TaskIds)) :
        /\ path # <<>>
        /\ \A i \in 1..(Len(path) - 1) : <<path[i], path[i + 1]>> \in E
        /\ <<path[Len(path)], path[1]>> \in E

\* this step is a spawn_task call of the running body
SpawnStep == pc = "body" /\ calls' = calls + 1 /\ last'.op = "spawn_task"

\* this step moves task c from pending to running
Dispatched(c) == task_status[c] = "pending" /\ task_status'[c] = "running"

\* no spawn_task call has aborted the workflow: it is being built, waits to
\* be run, or its loop still holds the running_loop flag
NoAbortYet == pc \in {"build", "idle"} \/ running_loops

\* C1: whenever a task c is dispatched (pending -> running), the parent of
\* every edge (p, c) then in edges is done or failed.
C1_DependencyOrdering ==
    [][\A c \in TaskIds :
         Dispatched(c) =>
            \A e \in EdgeSet : e[2] = c => Terminal(task_status[e[1]])]_vars

\* C2: right after an add_task or a spawn_task call that returned without
\* raising, the graph (tasks, edges) has no directed cycle.
C2_AcyclicAfterSuccess ==
    (last.op \in {"add_task", "spawn_task"} /\ last.outcome = "ok") => ~HasCycle(EdgeSet)

\* a spawn_task that attached an edge below a static edge has just returned
C2_Witness ==
    /\ last = [op |-> "spawn_task", outcome |-> "ok"]
    /\ Len(tasks) = 3
    /\ Len(edges) >= 2

\* C3: a task with max_spawn_count = k never has more than k spawn_task calls
\* that returned; and a spawn_task call it makes once k have returned aborts
\* the workflow with the quota violation and inserts no task.
C3_SpawnQuota ==
    /\ [](\A t \in TaskIds :
            ~cons[t].max_spawn_count.isNone => okSpawns[t] <= cons[t].max_spawn_count.val)
    /\ [][(/\ SpawnStep
           /\ last'.outcome # "creator"
           /\ ~cons[cur].max_spawn_count.isNone
           /\ okSpawns[cur] = cons[cur].max_spawn_count.val)
          => (/\ last'.outcome = "quota"
              /\ exc' = "abort"
              /\ tasks' = tasks
              /\ okSpawns' = okSpawns)]_vars

\* task A (max_spawn_count = 1) has spawned once and its second call was refused
C3_Witness ==
    /\ ~cons["A"].max_spawn_count.isNone
    /\ okSpawns["A"] = 1
    /\ cur = "A"
    /\ last = [op |-> "spawn_task", outcome |-> "quota"]

\* C4: a status that is done or failed never changes.
C4_TerminalMonotonicity ==
    [][\A t \in TaskIds :
         Terminal(task_status[t]) => task_status'[t] = task_status[t]]_vars

\* the node and edge checks as the policy checker is specified: allow_all
\* admits, allow_none rejects, custom admits exactly the listed candidates
PolicyAdmits(policy, listed, candidate) ==
    \/ policy = "allow_all"
    \/ policy = "custom" /\ candidate \in listed

\* C5: every edge (p, c) in the edges of a workflow no call has aborted is admitted by p's next-node policy, c's
\* previous-node policy, p's outgoing-edge policy and c's incoming-edge policy.
C5_PolicyAdmissibility ==
    NoAbortYet => \A e \in EdgeSet :
        /\ PolicyAdmits(cons[e[1]].valid_next_nodes_policy, cons[e[1]].valid_next_nodes, e[2])
        /\ PolicyAdmits(cons[e[2]].valid_previous_nodes_policy,
                        cons[e[2]].valid_previous_nodes, e[1])
        /\ PolicyAdmits(cons[e[1]].valid_outgoing_edges_policy,
                        cons[e[1]].valid_outgoing_edges, e)
        /\ PolicyAdmits(cons[e[2]].valid_incoming_edges_policy,
                        cons[e[2]].valid_incoming_edges, e)

\* C6: in a workflow no call has aborted, for every edge (p, c) whose endpoints both have an execution step, the
\* step of c is greater than the step of p.
C6_StepMonotonicity ==
    NoAbortYet => \A e \in EdgeSet :
        (execution_history[e[1]] # 0 /\ execution_history[e[2]] # 0)
            => execution_history[e[2]] > execution_history[e[1]]

\* the ways spawn_task rejects a call
AbortReasons ==
    {"creator", "quota", "node_policy", "duplicate", "unrelated_edge", "edge_policy", "cycle"}

\* C7: a spawn_task call that is rejected (unknown creator, quota, node policy,
\* duplicate id, unrelated edge, edge policy, cycle) leaves the queue empty,
\* every task that was pending or running (the task it had just inserted
\* included) failed, every done task done, and the running_loop flag clear.
C7_AbortEffect ==
    [][(SpawnStep /\ last'.outcome \in AbortReasons)
       => (/\ exc' = "abort"
           /\ ready_queue' = <<>>
           /\ ~running_loops'
           /\ \A t \in Range(tasks') :
                /\ task_status[t] \in {"pending", "running", "none"}
                       => task_status'[t] = "failed"
                /\ task_status[t] = "done" => task_status'[t] = "done"
                /\ task_status'[t] \in {"done", "failed"})]_vars

\* a cycle closed by a spawn has just aborted a workflow that held a done task,
\* a running one and queued entries
C7_Witness ==
    /\ last = [op |-> "spawn_task", outcome |-> "cycle"]
    /\ exc = "abort"
    /\ \E t \in TaskSet : task_status[t] = "done"
    /\ Len(tasks) = 3
    /\ \A t \in TaskSet : task_status[t] \in {"done", "failed"}

\* C8: a run in which a spawn_task abort left the body uncaught does not end
\* with run_workflow returning normally.
C8_AbortRaises == ~(aborted /\ pc = "returned")

\* C9: when run_workflow has returned normally, every task of the workflow,
\* spawned ones included, is done or failed, and check_task_status reports it.
C9_ReturnedAllTerminal ==
    pc = "returned" =>
        \A t \in TaskSet :
            /\ task_status[t] \in {"done", "failed"}
            /\ check_task_status(t).status = task_status[t]

\* run_workflow has returned from a run in which a task was spawned, with a
\* done and a failed task
C9_Witness ==
    /\ pc = "returned"
    /\ Len(tasks) = 3
    /\ \E t \in TaskSet : task_status[t] = "done"
    /\ \E t \in TaskSet : task_status[t] = "failed"

\* C10: when run_workflow has ended on an acyclic workflow, by returning or
\* by raising, no task of the workflow is left pending or running.
C10_CompletionAtEnd ==
    (pc \in {"returned", "raised"} /\ ~HasCycle(EdgeSet))
        => \A t \in TaskSet : Terminal(task_status[t])

\* this step is a discovery pass of run_helper
DiscoverStep == pc = "discover" /\ pc' = "drain"

\* the queue entries this step appended
Appended == SubSeq(ready_queue', Len(ready_queue) + 1, Len(ready_queue'))

RECURSIVE DoneOutputs(_)
\* the recorded non-empty outputs of the predecessors that are done, in order
DoneOutputs(preds) ==
    IF preds = <<>> THEN <<>>
    ELSE (IF task_status[Head(preds)] = "done" /\ Truthy(DictGet(task_outputs[Head(preds)]))
          THEN <<task_outputs[Head(preds)]>> ELSE <<>>)
         \o DoneOutputs(Tail(preds))

\* C11: an error that leaves a body and is not a spawn abort changes the
\* status of that task only, and every task a discovery pass then finds ready
\* is queued with the outputs of its done predecessors, failed ones omitted.
C11_FailureIsolation ==
    [][/\ (pc = "body" /\ cur' = "none" /\ task_status'[cur] = "failed" /\ exc # "abort")
            => \A t \in TaskIds \ {cur} : task_status'[t] = task_status[t]
       /\ DiscoverStep
            => \A i \in 1..Len(Appended) :
                  Appended[i][2] = ListV(DoneOutputs(Preds(edges, Appended[i][1])))]_vars

\* this step is a run_workflow call up to its guards and root enqueue
RunCallStep ==
    /\ pc \in {"idle", "raised", "body"}
    /\ last'.op = "run_workflow"
    /\ last'.outcome \in {"already_running", "running"}
    /\ pc = "body" => (calls' # calls \/ pc' # pc)

\* C12: a run_workflow call made while the running_loops flag is set raises
\* and leaves statuses, inputs, outputs, spawn counts, execution steps, the
\* ready queue, the flag and the workflow unchanged.
C12_RunWhileRunning ==
    [][(RunCallStep /\ running_loops)
       => (/\ last'.outcome = "already_running"
           /\ pc = "body" => exc' = "RuntimeError"
           /\ UNCHANGED <<orchVars, wfVars>>)]_vars

\* a body has just called run_workflow on its own workflow, whose queue still
\* holds entries, and got the error
C12_Witness ==
    /\ last = [op |-> "run_workflow", outcome |-> "already_running"]
    /\ pc = "body"
    /\ exc = "RuntimeError"
    /\ running_loops
    /\ ready_queue # <<>>

\* this step is a register_workflow call on the registered workflow
RegisterCallStep ==
    /\ registered
    /\ pc \in {"idle", "returned", "raised", "body"}
    /\ last'.op = "register_workflow"
    /\ pc = "body" => calls' = calls + 1

\* C13: register_workflow with an id that is already registered raises and
\* leaves the registered workflow, the statuses, spawn counts, queue and flag
\* (and every other orchestrator table) as they were.
C13_RegisterTwice ==
    [][RegisterCallStep
       => (/\ last'.outcome = "already_registered"
           /\ UNCHANGED <<registered, orchVars, wfVars>>)]_vars

\* the second registration was refused after a run that spawned and finished tasks
C13_Witness ==
    /\ last = [op |-> "register_workflow", outcome |-> "already_registered"]
    /\ pc = "returned"
    /\ \E t \in TaskSet : task_status[t] = "done"
    /\ \E t \in TaskSet : spawn_counts[t] > 0

\* C14: the edge check of a candidate edge src -> dst admits it in the
\* outgoing direction iff src's outgoing policy is allow_all, or custom with
\* (src, dst) listed, and in the incoming direction iff dst's incoming policy
\* is allow_all, or custom with (src, dst) listed.
C14_EdgeCheckCustom ==
    probe.op = "check_edge_against_policy" =>
        (~probe.raised <=>
            IF probe.direction = "outgoing"
            THEN PolicyAdmits(cons[probe.src].valid_outgoing_edges_policy,
                              cons[probe.src].valid_outgoing_edges, <<probe.src, probe.dst>>)
            ELSE PolicyAdmits(cons[probe.dst].valid_incoming_edges_policy,
                              cons[probe.dst].valid_incoming_edges, <<probe.src, probe.dst>>))

\* a constraint record as the constraint model wants it
WellFormed(rec) ==
    /\ rec.max_spawn_count.isNone \/ rec.max_spawn_count.val >= 0
    /\ \A pl \in {<<rec.valid_next_nodes_policy, rec.valid_next_nodes>>,
                  <<rec.valid_previous_nodes_policy, rec.valid_previous_nodes>>,
                  <<rec.valid_incoming_edges_policy, rec.valid_incoming_edges>>,
                  <<rec.valid_outgoing_edges_policy, rec.valid_outgoing_edges>>} :
          /\ pl[1] \in {"allow_all", "allow_none", "custom"}
          /\ pl[1] = "allow_none" => pl[2] = {}
          /\ pl[1] = "custom" => pl[2] # {}

\* C15: constructing a constraint record succeeds iff max_spawn_count is
\* absent or >= 0, each policy is one of the three tokens, every allow_none
\* policy has an empty list and every custom policy a non-empty one.
C15_ConstructionWellFormed ==
    probe.op = "TaskConstraints" => (~probe.raised <=> WellFormed(probe.rec))

\* a record whose only fault is a custom policy with an empty list was refused
C15_Witness ==
    /\ probe.op = "TaskConstraints"
    /\ probe.raised
    /\ probe.rec.valid_outgoing_edges_policy = "custom"
    /\ probe.rec.valid_outgoing_edges = {}
    /\ WellFormed([probe.rec EXCEPT !.valid_outgoing_edges = {<<"A", "B">>}])

\* C16: a spawn_task call whose new_edges holds an edge that touches neither
\* the creator nor the new task aborts the workflow, and that edge is appended
\* neither to edges nor to visual_edges.
C16_UnrelatedEdgeRejected ==
    [][(SpawnStep /\ unrelated' # {})
       => (/\ exc' = "abort"
           /\ \A i \in (Len(edges) + 1)..Len(edges') : edges'[i] \notin unrelated'
           /\ \A i \in (Len(visual_edges) + 1)..Len(visual_edges') :
                 visual_edges'[i] \notin unrelated')]_vars

\* the inputs a root is to be dispatched with: its entry of the input map, the
\* empty sequence without one
RootInputsOf(t) == IF root_inputs[t] = Absent THEN ListV(<<>>) ELSE root_inputs[t]

\* C17: a task that had no incoming edge when run_workflow started is
\* dispatched with its entry of that call's input map (the empty sequence if
\* it has none), and the inputs recorded for it are not replaced afterwards.
C17_RootInputs ==
    [][\A c \in TaskIds :
         root_inputs[c] # NotRoot =>
            /\ Dispatched(c) => task_inputs'[c] = RootInputsOf(c)
            /\ (task_status[c] \in {"running", "done", "failed"} /\ root_inputs' = root_inputs)
                  => task_inputs'[c] = task_inputs[c]]_vars

\* an output that is defined and not empty: not missing, not None, not []
Defined(x) == x # Absent /\ x # NoneV /\ x # ListV(<<>>)

RECURSIVE DefinedOutputs(_)
\* the defined outputs of the predecessors, in order
DefinedOutputs(preds) ==
    IF preds = <<>> THEN <<>>
    ELSE (IF Defined(task_outputs[Head(preds)]) THEN <<task_outputs[Head(preds)]>> ELSE <<>>)
         \o DefinedOutputs(Tail(preds))

\* C18: a task with predecessors that a discovery pass finds ready is queued
\* with the outputs of its predecessors in edge-insertion order, every defined
\* output (the number 0 included) present and only absent or empty ones left out.
C18_InputAssembly ==
    [][DiscoverStep
       => \A i \in 1..Len(Appended) :
             Preds(edges, Appended[i][1]) # <<>>
                => Appended[i][2] = ListV(DefinedOutputs(Preds(edges, Appended[i][1])))]_vars

\* the position of a task in tasks
Pos(t) == CHOOSE i \in 1..Len(tasks) : tasks[i] = t

\* the largest execution step assigned so far (0: none)
LargestStep == CHOOSE m \in 0..(2 * Cardinality(TaskIds) + 1) :
                  /\ \A t \in TaskIds : execution_history[t] <= m
                  /\ m = 0 \/ \E t \in TaskIds : execution_history[t] = m

\* the tasks that are ready: pending, with no predecessor pending or running
Ready ==
    {t \in TaskSet : /\ task_status[t] = "pending"
                     /\ \A e \in EdgeSet : e[2] = t => task_status[e[1]] \notin {"pending", "running"}}

\* C19: a discovery pass appends the ready tasks behind the entries already
\* queued, in tasks insertion order, and gives all of them the step 1 + the
\* largest step assigned so far (1 for the initial roots); a dispatch takes the
\* entry at the head of the queue.
C19_SameStepFifo ==
    [][/\ DiscoverStep
          => /\ SubSeq(ready_queue', 1, Len(ready_queue)) = ready_queue
             /\ {Appended[i][1] : i \in 1..Len(Appended)} = Ready
             /\ \A i \in 1..Len(Appended) :
                   /\ execution_history'[Appended[i][1]] = 1 + LargestStep
                   /\ \A j \in 1..(i - 1) : Pos(Appended[j][1]) < Pos(Appended[i][1])
             /\ \A t \in TaskIds \ Ready : execution_history'[t] = execution_history[t]
       /\ (pc = "drain" /\ pc' # "drain" /\ ready_queue # <<>>)
          => /\ ready_queue' = Tail(ready_queue)
             /\ \A c \in TaskIds : Dispatched(c) => c = Head(ready_queue)[1]]_vars

\* a discovery pass after the first has just queued two tasks with the same step
C19_Witness ==
    /\ pc = "drain"
    /\ \E i, j \in 1..Len(ready_queue) :
          /\ i < j
          /\ ready_queue[i][1] # ready_queue[j][1]
          /\ Pos(ready_queue[i][1]) < Pos(ready_queue[j][1])
          /\ task_status[ready_queue[i][1]] = "pending"
          /\ task_status[ready_queue[j][1]] = "pending"
          /\ execution_history[ready_queue[i][1]] = execution_history[ready_queue[j][1]]
          /\ execution_history[ready_queue[i][1]] > 1

\* C20: in every state after the workflow is registered, the directed graph
\* (tasks, edges) is acyclic, whatever spawn_task calls, accepted or rejected,
\* have happened.
C20_AcyclicAlways == registered => ~HasCycle(EdgeSet)

\* C21: in every state, both endpoints of every pair in edges and in
\* visual_edges are ids of tasks in tasks: a dependency of add_task or a new
\* edge of spawn_task that names an id the workflow does not hold is never
\* appended.
C21_EndpointsAreTasks ==
    \A e \in Range(edges) \cup Range(visual_edges) : e[1] \in TaskSet /\ e[2] \in TaskSet

\* a spawn_task call whose new edge names an id the workflow does not hold has
\* just raised: the new task is inserted with its visual edge, the edge is not
C21_Witness ==
    /\ last = [op |-> "spawn_task", outcome |-> "unknown_endpoint"]
    /\ exc = "KeyError"
    /\ Len(tasks) = 2
    /\ Len(visual_edges) = 1
    /\ edges = <<>>

\* this step is an add_task call of the developer
AddTaskStep == pc = "build" /\ pc' # "idle" /\ probe' = probe

\* C22: an add_task call either inserts a task whose id the workflow did not
\* hold, or (the id is already present) raises and leaves tasks, edges and
\* visual_edges as they were.
C22_DuplicateAddTask ==
    [][AddTaskStep =>
         \/ \E t \in TaskIds \ TaskSet : tasks' = Append(tasks, t)
         \/ /\ last' = [op |-> "add_task", outcome |-> "duplicate"]
            /\ pc' = "discarded"
            /\ tasks' = tasks
            /\ edges' = edges
            /\ visual_edges' = visual_edges
            /\ cons' = cons]_vars

\* add_task has just raised on an id already present, in a workflow of two
\* tasks and an edge
C22_Witness ==
    /\ last = [op |-> "add_task", outcome |-> "duplicate"]
    /\ pc = "discarded"
    /\ Len(tasks) = 2
    /\ Len(edges) = 1

\* the spawn_task call that inserted c was given input_data and left c
\* without an incoming edge
EnqueuedBySpawn(c) ==
    /\ spawn_args[c].input_data \notin {Absent, NoneV}
    /\ ~spawn_args[c].has_deps

\* C23: a spawn_task call that returns appends its new task to the ready queue
\* if and only if input_data was given and the new task has no incoming edge
\* in edges as the call leaves them, and then with exactly input_data, which is
\* what the task is dispatched with.  Otherwise the call leaves the queue
\* alone, the task is dispatched with a list a discovery pass assembled and not
\* with input_data, and a discovery pass queues it only when every predecessor
\* is done or failed.
C23_ImmediateEnqueue ==
    [][\A c \in TaskIds :
         /\ (SpawnStep /\ spawn_args'[c] # spawn_args[c])
              => ready_queue' =
                   IF /\ spawn_args'[c].input_data # NoneV
                      /\ ~(\E e \in Range(edges') : e[2] = c)
                   THEN Append(ready_queue, <<c, spawn_args'[c].input_data>>)
                   ELSE ready_queue
         /\ (Dispatched(c) /\ spawn_args[c] # NotSpawned)
              => IF EnqueuedBySpawn(c)
                 THEN task_inputs'[c] = spawn_args[c].input_data
                 ELSE /\ task_inputs'[c] # spawn_args[c].input_data
                      /\ task_inputs'[c].tag = "list"
         /\ (/\ DiscoverStep
             /\ spawn_args[c] # NotSpawned
             /\ \E i \in 1..Len(Appended) : Appended[i][1] = c)
              => \A e \in EdgeSet : e[2] = c => Terminal(task_status[e[1]])]_vars

\* a task spawned with input_data and no incoming edge runs with that
\* input_data, while another, spawned with input_data under an edge, waits
C23_Witness ==
    \E c, d \in TaskIds :
        /\ EnqueuedBySpawn(c)
        /\ task_status[c] = "running"
        /\ task_inputs[c] = spawn_args[c].input_data
        /\ spawn_args[d].input_data = IntV(5)
        /\ spawn_args[d].has_deps
        /\ task_status[d] = "pending"

\* C24: in every state the spawn_count of a task equals the number of
\* spawn_task calls it created that returned; a rejected call does not
\* increase it.
C24_SpawnCountIsSuccesses ==
    registered => \A t \in TaskIds : spawn_counts[t] = okSpawns[t]

\* C25: a spawn_task call that returns appends to edges exactly the pairs of
\* new_edges, in their order; the pair (creator, new task) goes to visual_edges
\* only, and not even there with skip_visual_edge.  A task spawned without
\* new_edges has no predecessor, and the next discovery pass finds a pending
\* task without predecessor ready whatever the status of its creator.
C25_SpawnIsNoDependency ==
    [][\A c \in TaskIds :
         /\ (SpawnStep /\ spawn_args'[c] # spawn_args[c])
              => /\ edges' = edges \o spawn_args'[c].new_edges
                 /\ visual_edges' =
                      visual_edges
                      \o (IF spawn_args'[c].skip_visual_edge THEN <<>> ELSE <<<<cur, c>>>>)
                      \o spawn_args'[c].new_edges
                 /\ spawn_args'[c].new_edges = <<>>
                      => ~(\E e \in Range(edges') : e[2] = c)
         /\ (/\ DiscoverStep
             /\ spawn_args[c] # NotSpawned
             /\ task_status[c] = "pending"
             /\ ~(\E e \in EdgeSet : e[2] = c))
              => \E i \in 1..Len(Appended) : Appended[i][1] = c]_vars

\* two spawn_task calls have returned, one with skip_visual_edge and no edge,
\* one with a new edge: edges holds that edge alone
C25_Witness ==
    \E c, d \in TaskIds :
        /\ spawn_args[c] # NotSpawned
        /\ spawn_args[c].skip_visual_edge
        /\ spawn_args[c].new_edges = <<>>
        /\ spawn_args[d] # NotSpawned
        /\ ~spawn_args[d].skip_visual_edge
        /\ Len(spawn_args[d].new_edges) = 1
        /\ Len(edges) = 1
        /\ last = [op |-> "spawn_task", outcome |-> "ok"]

\* C26: run_workflow on a registered workflow without tasks returns normally
\* and leaves the running_loops flag clear.
C26_EmptyWorkflowReturns ==
    (registered /\ tasks = <<>> /\ last.op = "run_workflow" /\ pc # "discover")
        => (pc = "returned" /\ ~running_loops)

\* C27: in every state a task whose status is failed has no recorded output,
\* and check_task_status gives a result only for a task whose status is done.
C27_FailedHasNoOutput ==
    \A t \in TaskIds :
        /\ task_status[t] = "failed" => task_outputs[t] = Absent
        /\ check_task_status(t).result # NoneV => check_task_status(t).status = "done"

\* the tasks whose status is running
Running == {t \in TaskIds : task_status[t] = "running"}

\* C28: at most one task is running at any moment, and it is the one whose
\* body is executing; no discovery pass happens while a task is running; a
\* handle call of the body (spawn_task, complete_task, or a run_workflow or
\* register_workflow call that is refused) starts no other body: no status
\* becomes running and the body stays the current one.
C28_SingleFlowOfControl ==
    /\ [](Cardinality(Running) <= 1 /\ Running \subseteq {cur})
    /\ [][/\ pc = "discover" => Running = {}
          /\ (pc = "body" /\ calls' = calls + 1)
               => /\ \A t \in TaskIds : ~Dispatched(t)
                  /\ Running' \subseteq Running
                  /\ cur' = cur
                  /\ pc' = "body"]_vars

\* a body is running and its spawn_task call has just put a pending task in
\* the ready queue
C28_Witness ==
    /\ pc = "body"
    /\ Running = {cur}
    /\ last = [op |-> "spawn_task", outcome |-> "ok"]
    /\ \E i \in 1..Len(ready_queue) :
          /\ task_status[ready_queue[i][1]] = "pending"
          /\ EnqueuedBySpawn(ready_queue[i][1])

\* C29: once a spawn_task abort has propagated out of the calling body, the
\* ready queue is empty and every task is done or failed; no task is
\* dispatched any more in that run, and the scheduling loop, if the
\* rendering after the body does not raise, goes to its exit and returns.
C29_NoDispatchAfterAbort ==
    /\ [](aborted => /\ ready_queue = <<>>
                     /\ AllTerminal(tasks, task_status)
                     /\ pc \in {"drain", "returned", "raised"})
    /\ [][aborted => /\ \A c \in TaskIds : ~Dispatched(c)
                     /\ pc = "drain" => pc' = "returned"]_vars

\* the abort of a second spawn_task call has propagated: the task the first
\* call had put in the ready queue is failed and was never dispatched
C29_Witness ==
    /\ aborted
    /\ pc = "returned"
    /\ \E t \in TaskIds :
          /\ EnqueuedBySpawn(t)
          /\ task_status[t] = "failed"
          /\ task_inputs[t] = Absent

\* this step takes the head entry off the ready queue
DequeueStep == pc = "drain" /\ ready_queue # <<>> /\ pc' # "discover"

\* C30: a task body is invoked at most once, however many entries the ready
\* queue holds for its id: a dequeue starts the body exactly when the task is
\* still pending, which no task is again once it was dispatched; the inputs
\* recorded for the task are those of the entry dequeued then and never
\* change afterwards.
C30_BodyAtMostOnce ==
    [][\A c \in TaskIds :
         /\ Dispatched(c)
              => /\ DequeueStep
                 /\ Head(ready_queue)[1] = c
                 /\ task_inputs[c] = Absent
                 /\ task_inputs'[c] = Head(ready_queue)[2]
                 /\ task_inputs'[c] # Absent
                 /\ cur' = c
                 /\ pc' = "body"
         /\ (DequeueStep /\ Head(ready_queue)[1] = c)
              => IF task_status[c] = "pending"
                 THEN Dispatched(c)
                 ELSE pc' # "body" /\ task_status' = task_status
         /\ task_inputs[c] # Absent
              => /\ task_inputs'[c] = task_inputs[c]
                 /\ task_status'[c] # "pending"]_vars

\* a root that ran with the inputs run_workflow queued for it is done, and the
\* entry the first discovery pass queued for it is at the head of the queue
C30_Witness ==
    /\ pc = "drain"
    /\ ready_queue # <<>>
    /\ task_status[Head(ready_queue)[1]] = "done"
    /\ task_inputs[Head(ready_queue)[1]] = ListV(<<IntV(1)>>)
    /\ Head(ready_queue)[2] = ListV(<<>>)

\* the outcomes of the four checks spawn_task makes before it inserts anything
EarlyRejections == {"creator", "quota", "node_policy", "duplicate"}

\* C31: a spawn_task call rejected because its creator is not in the workflow,
\* the quota is used up, a node policy refuses the new task, or the new id is
\* already present leaves tasks, edges, visual_edges, the spawn counts and the
\* execution steps as they were; it empties the ready queue, marks the pending
\* and running tasks failed, clears the running_loops flag and raises.
C31_EarlyRejectionFrame ==
    [][(SpawnStep /\ last'.outcome \in EarlyRejections)
         => /\ tasks' = tasks
            /\ edges' = edges
            /\ visual_edges' = visual_edges
            /\ spawn_counts' = spawn_counts
            /\ execution_history' = execution_history
            /\ task_inputs' = task_inputs
            /\ task_outputs' = task_outputs
            /\ ready_queue' = <<>>
            /\ running_loops' = FALSE
            /\ exc' = "abort"
            /\ \A t \in TaskIds :
                  task_status'[t] =
                     IF t \in TaskSet /\ task_status[t] \in {"pending", "running"}
                     THEN "failed" ELSE task_status[t]]_vars

\* a task that has spawned once calls spawn_task with the id it has just
\* inserted: the call is refused and the spawn count is still 1
C31_Witness ==
    /\ last = [op |-> "spawn_task", outcome |-> "duplicate"]
    /\ exc = "abort"
    /\ cur \in TaskIds
    /\ okSpawns[cur] = 1
    /\ spawn_counts[cur] = 1
    /\ task_status[cur] = "failed"
    /\ ready_queue = <<>>
    /\ ~running_loops

\* this step is an add_task call for an id the workflow does not hold, on an
\* acyclic workflow
AddNewTaskStep ==
    /\ AddTaskStep
    /\ add_args'.task \notin TaskSet
    /\ ~HasCycle(EdgeSet)

\* the new task's own id is in the dependencies list
SelfDependency(args) == args.task \in Range(args.dependencies)

\* every dependency of the list is a task of the workflow (the new one
\* included) and passes the four policy checks
DependenciesPass(args) ==
    \A i \in 1..Len(args.dependencies) :
        /\ args.dependencies[i] \in TaskSet \cup {args.task}
        /\ DepAdmitted(args.dependencies[i], args.task)

\* C32 as stated: from an acyclic workflow, add_task of a new task raises the
\* cycle error if and only if the task's own id is in its dependencies list,
\* and without it creates no cycle.
C32_CycleIffSelfDependency ==
    [][AddNewTaskStep
         => /\ last'.outcome = "cycle" <=> SelfDependency(add_args')
            /\ ~SelfDependency(add_args') => ~HasCycle(Range(edges'))]_vars

\* C32 amended: from an acyclic workflow, add_task of a new task raises the
\* cycle error if and only if the task's own id is in its dependencies list
\* and every dependency of the list is registered and passes the policy
\* checks (otherwise the error of the first dependency that does not is
\* raised instead); without its own id in the list it creates no cycle.
C32_CycleIffSelfDependencyResolved ==
    [][AddNewTaskStep
         => /\ last'.outcome = "cycle"
                 <=> (SelfDependency(add_args') /\ DependenciesPass(add_args'))
            /\ (SelfDependency(add_args') /\ ~DependenciesPass(add_args'))
                 => last'.outcome \in {"unknown_dependency", "policy"}
            /\ ~SelfDependency(add_args') => ~HasCycle(Range(edges'))]_vars

\* add_task of a second task that names a registered task and then itself has
\* just raised the cycle error, leaving the self-loop in edges
C32_Witness ==
    /\ last = [op |-> "add_task", outcome |-> "cycle"]
    /\ Len(tasks) = 2
    /\ Len(add_args.dependencies) = 2
    /\ add_args.dependencies[1] # add_args.task
    /\ add_args.dependencies[2] = add_args.task
    /\ <<add_args.task, add_args.task>> \in EdgeSet

\* a run_workflow call made after a run has ended with every task done or
\* failed is in its loop: no body has run since the call
Rerunning ==
    /\ tasks # <<>>
    /\ AllTerminal(tasks, task_status)
    /\ last = [op |-> "run_workflow", outcome |-> "running"]
    /\ pc \in {"discover", "drain"}

\* this step is a run_workflow call on a workflow whose last run has ended
\* with every task done or failed
RerunCallStep ==
    /\ tasks # <<>>
    /\ AllTerminal(tasks, task_status)
    /\ pc \in {"returned", "raised"}
    /\ last'.op = "run_workflow"
    /\ last' # last

\* C33: run_workflow called again on a workflow whose previous run ended with
\* every task done or failed starts its loop, invokes no task body, leaves
\* every status, inputs, output, spawn count and execution step as it was,
\* does not raise, and returns with the ready queue empty and the
\* running_loops flag clear.
C33_RerunIdempotent ==
    [][/\ RerunCallStep => pc' = "discover"
       /\ (RerunCallStep \/ Rerunning)
            => /\ pc' \in {"discover", "drain", "returned"}
               /\ task_status' = task_status
               /\ task_inputs' = task_inputs
               /\ task_outputs' = task_outputs
               /\ spawn_counts' = spawn_counts
               /\ execution_history' = execution_history
               /\ pc' = "returned" => (ready_queue' = <<>> /\ ~running_loops')]_vars

====
